---- MODULE Spec2Model ----
(***************************************************************************)
(* Model of the voice_interviewer pipeline:                                *)
(*   - VADService (services/vad.py): frame buffer + voice activity         *)
(*     segmenter;                                                          *)
(*   - voice_websocket / process_audio_safe / stream_response_with_tts     *)
(*     (server.py): the per-session receive loop, the turn controller and  *)
(*     the streaming response orchestrator;                                *)
(*   - LLMService.generate_stream (services/llm.py): the sentence source   *)
(*     and the conversation archive.                                       *)
(*                                                                         *)
(* Specifications: SpecVad (the segmenter alone), Spec (one session, one   *)
(* turn, free audio and LLM chunks), SpecTurns (one session, several       *)
(* turns, interrupts) and SpecStream (one turn on fixed LLM streams).      *)
(*                                                                         *)
(* Audio is a run-length encoded sequence of int16 samples: a sequence of  *)
(* runs [lv |-> amplitude, n |-> number of samples].  The float32 value    *)
(* v / 32768.0 the code works on is represented by its numerator v.        *)
(***************************************************************************)
EXTENDS Integers, Sequences, FiniteSets, TLC

\* ------------------------------------------------------------------------
\* Program constants
\* ------------------------------------------------------------------------
\* VADService.CHUNK_SIZE
CHUNK_SIZE == 512

\* self._min_consecutive_speech
min_consecutive_speech == 3

\* self._min_consecutive_silence (assigned in __init__, read nowhere)
min_consecutive_silence == 4

\* The idle clean-up threshold of the last branch of process_audio:
\* "if self._consecutive_silence > 5 and self._speech_buffer".
IdleClearAfter == 5

\* rms < min_audio_level with min_audio_level = 0.01 (config.vad default):
\*   sqrt(sum(v^2) / (CHUNK_SIZE * 32768^2)) < 0.01
\*   <=>  sum(v^2) < 0.0001 * 32768^2 * 512 = 54975581.39
\*   <=>  sum(v^2) < 54975582                    (the sum is an integer)
RmsGateSumSq == 54975582

\* ------------------------------------------------------------------------
\* Configuration of the modelled VADService instance.  The server builds it
\* with the defaults: min_speech = max(min_speech_ms / 1000, 0.3) s,
\* min_silence = max(min_silence_ms / 1000, 0.6) s, max_speech_duration =
\* 30 s and 0.8 s of bytes at 16 kHz, that is 4800 / 11200 / 480000 samples
\* and 25600 bytes.  The model scales the durations down to a handful of
\* frames and keeps what the defaults guarantee: min_speech_samples spans
\* more frames than min_consecutive_speech, min_silence_samples spans at
\* least min_consecutive_silence frames, and a segment force-closed at
\* max_speech_samples has min_speech_bytes.  Unlike the defaults, the scaled
\* min_speech_bytes is more than a minimal silence-closed segment, so that
\* the discard of a short segment happens.
\* ------------------------------------------------------------------------
\* int(min_speech * sample_rate)
min_speech_samples == 2048
\* int(min_silence * sample_rate)
min_silence_samples == 2048
\* int(max_speech_duration * sample_rate)
max_speech_samples == 5120
\* int(0.8 * sample_rate * 2)
min_speech_bytes == 9216

\* Sample amplitudes (int16 units) the client may send.
Quiet == 100
Loud == 1000
Levels == {Quiet, Loud}

\* Sizes (in samples) of one audio push.
PushLens == {256, 512, 1024}

\* The model feeds at most this many frames between two resets (the code
\* has no such limit).
MaxFramesFed == 12

\* ------------------------------------------------------------------------
\* Audio helpers (numpy array operations on run-length encoded samples)
\* ------------------------------------------------------------------------
RECURSIVE NumSamples(_)
\* len(array)
NumSamples(a) == IF a = <<>> THEN 0 ELSE a[1].n + NumSamples(Tail(a))

\* np.concatenate([a, b])
Concat(a, b) ==
    IF a = <<>> THEN b
    ELSE IF b = <<>> THEN a
    ELSE IF a[Len(a)].lv = b[1].lv
         THEN SubSeq(a, 1, Len(a) - 1)
              \o <<[lv |-> b[1].lv, n |-> a[Len(a)].n + b[1].n]>>
              \o Tail(b)
         ELSE a \o b

RECURSIVE TakeSamples(_, _)
\* array[:k]
TakeSamples(a, k) ==
    IF k = 0 \/ a = <<>> THEN <<>>
    ELSE IF a[1].n <= k
         THEN Concat(<<a[1]>>, TakeSamples(Tail(a), k - a[1].n))
         ELSE <<[lv |-> a[1].lv, n |-> k]>>

RECURSIVE DropSamples(_, _)
\* array[k:]
DropSamples(a, k) ==
    IF k = 0 \/ a = <<>> THEN a
    ELSE IF a[1].n <= k
         THEN DropSamples(Tail(a), k - a[1].n)
         ELSE <<[lv |-> a[1].lv, n |-> a[1].n - k]>> \o Tail(a)

RECURSIVE SumSq(_)
\* sum(chunk ** 2) in int16 units
SumSq(a) == IF a = <<>> THEN 0 ELSE a[1].n * a[1].lv * a[1].lv + SumSq(Tail(a))

RECURSIVE ConcatAll(_)
\* np.concatenate(self._speech_buffer)
ConcatAll(buf) == IF buf = <<>> THEN <<>> ELSE Concat(buf[1], ConcatAll(Tail(buf)))

RECURSIVE total_samples(_)
\* sum(len(c) for c in self._speech_buffer)
total_samples(buf) ==
    IF buf = <<>> THEN 0 ELSE NumSamples(buf[1]) + total_samples(Tail(buf))

\* len(bytes) of int16 PCM
ByteLen(a) == 2 * NumSamples(a)

\* Python None / "no segment" in a (speech_ended, speech_audio) result
None == <<>>

\* ------------------------------------------------------------------------
\* Text helpers (Python str operations on sequences of characters)
\* ------------------------------------------------------------------------
sentence_endings == {".", "!", "?"}
clause_endings == {",", ":", ";"}
Whitespace == {" "}

\* str.isalnum() of one character of the model's alphabet
IsAlnum(c) == c \notin (Whitespace \cup sentence_endings \cup clause_endings)

\* any(char in text for char in chars)
ContainsAny(t, chars) == \E i \in 1..Len(t) : t[i] \in chars

RECURSIVE lstrip(_)
lstrip(t) ==
    IF t = <<>> THEN t
    ELSE IF t[1] \in Whitespace THEN lstrip(Tail(t)) ELSE t

RECURSIVE rstrip(_)
rstrip(t) ==
    IF t = <<>> THEN t
    ELSE IF t[Len(t)] \in Whitespace THEN rstrip(SubSeq(t, 1, Len(t) - 1)) ELSE t

\* str.strip()
strip(t) == rstrip(lstrip(t))

\* len(text.split())
word_count(t) ==
    Cardinality({i \in 1..Len(t) :
        /\ t[i] \notin Whitespace
        /\ IF i = 1 THEN TRUE ELSE t[i - 1] \in Whitespace})

\* The fallback sentence generate_stream yields when the LLM stream raises:
\* "I apologize, could you please repeat that?"
Apology ==
    <<"I", " ", "a", "p", "o", "l", "o", "g", "i", "z", "e", ",", " ",
      "c", "o", "u", "l", "d", " ", "y", "o", "u", " ",
      "p", "l", "e", "a", "s", "e", " ", "r", "e", "p", "e", "a", "t", " ",
      "t", "h", "a", "t", "?">>

\* The chunks the LLM stream may deliver (chunk.content).
Tokens ==
    { <<>>,
      <<"H", "e", "l", "l", "o", ".">>,
      <<" ", "H", "i", "!">>,
      <<" ", "s", "o", ",">>,
      <<" ", "o", "k">>,
      <<" ", "a", " ", "b", " ", "c">> }

\* The transcripts STTService.transcribe may return (stripped, or empty).
Transcripts == { <<>>, <<"h", "i">> }

\* The LLM stream delivers at most this many chunks in one turn.
MaxRawTokens == 3

\* The session runs at most this many turns.
MaxTurns == 1

\* ------------------------------------------------------------------------
\* State
\* ------------------------------------------------------------------------
VARIABLES
    vad,        \* the fields of the session's VADService
    ret,        \* the result of the last process_audio call, while it is read
    obs,        \* what the last process_audio call did on its last frame
    hist,       \* what was fed since the last reset (history)
    pc,         \* where the session's handler coroutine is suspended
    conn,       \* is_connected of voice_websocket, whether the peer is there,
                \* whether an interrupt message of the peer is unread, and
                \* the audio of an unread audio message
    sent,       \* the events sent to the client in the current or last turn
    llm,        \* the fields of the session's LLMService
    orch,       \* the locals of stream_response_with_tts
    gen,        \* the locals of generate_stream and where it is suspended
    turn,       \* history of the current or last turn
    world       \* the process as a whole: every connected session with its
                \* services, active_sessions, output.json, the _VAD_MODEL cache

vars == <<vad, ret, obs, hist, pc, conn, sent, llm, orch, gen, turn, world>>

server_vars == <<pc, conn, sent, llm, orch, gen, turn, world>>

\* The variables of the session modelled in detail.
session_vars == <<vad, ret, obs, hist, pc, conn, sent, llm, orch, gen, turn>>

\* VADService.__init__ (of the fields assigned from the arguments, the state
\* keeps min_silence_samples)
VadInit ==
    [ min_silence_samples |-> min_silence_samples,
      is_speaking         |-> FALSE,
      speech_buffer       |-> <<>>,
      speech_samples      |-> 0,
      silence_samples     |-> 0,
      pending_audio       |-> <<>>,
      processing_lock     |-> FALSE,
      consecutive_speech  |-> 0,
      consecutive_silence |-> 0 ]

NoRet == [ended |-> FALSE, audio |-> None]

NoObs == [frames |-> 0, kind |-> "none", was_speaking |-> FALSE, sil |-> 0,
          total |-> 0, csil |-> 0, closed |-> "no"]

HistInit == [allQuiet |-> TRUE, onlySpeech |-> TRUE, framesFed |-> 0, emitted |-> 0]

\* ------------------------------------------------------------------------
\* VADService
\* ------------------------------------------------------------------------
\* Mutant of reset: the pending partial-frame samples are kept.
reset_keeps_pending(s) ==
    [s EXCEPT !.is_speaking = FALSE,
              !.speech_buffer = <<>>,
              !.speech_samples = 0,
              !.silence_samples = 0,
              !.processing_lock = FALSE,
              !.consecutive_speech = 0,
              !.consecutive_silence = 0]

\* VADService.reset
reset(s) ==
    [s EXCEPT !.is_speaking = FALSE,
              !.speech_buffer = <<>>,
              !.speech_samples = 0,
              !.silence_samples = 0,
              !.pending_audio = <<>>,
              !.processing_lock = FALSE,
              !.consecutive_speech = 0,
              !.consecutive_silence = 0]

\* Mutant of set_processing: the lock flag is never set.
set_processing_never_locks(s, is_processing) ==
    IF is_processing
    THEN [s EXCEPT !.processing_lock = FALSE,
                   !.speech_buffer = <<>>,
                   !.speech_samples = 0,
                   !.silence_samples = 0,
                   !.is_speaking = FALSE,
                   !.consecutive_speech = 0,
                   !.consecutive_silence = 0]
    ELSE [s EXCEPT !.processing_lock = FALSE]

\* VADService.set_processing
set_processing(s, is_processing) ==
    IF is_processing
    THEN [s EXCEPT !.processing_lock = TRUE,
                   !.speech_buffer = <<>>,
                   !.speech_samples = 0,
                   !.silence_samples = 0,
                   !.is_speaking = FALSE,
                   !.consecutive_speech = 0,
                   !.consecutive_silence = 0]
    ELSE [s EXCEPT !.processing_lock = FALSE]

\* (speech_audio * 32768.0).astype(np.int16): the product of v / 32768 and
\* 32768 is the integer v exactly in float32, and the cast wraps to 16 bits.
AsInt16(a) ==
    [i \in 1..Len(a) |->
        [lv |-> ((a[i].lv + 32768) % 65536) - 32768, n |-> a[i].n]]

\* Mutant of get_speech_bytes: the minimum-length check is left out.
get_speech_bytes_no_floor(s) ==
    IF s.speech_buffer = <<>> THEN None
    ELSE AsInt16(ConcatAll(s.speech_buffer))

\* VADService._get_speech_bytes
get_speech_bytes(s) ==
    IF s.speech_buffer = <<>> THEN None
    ELSE LET speech_bytes == AsInt16(ConcatAll(s.speech_buffer))
         IN  IF ByteLen(speech_bytes) < min_speech_bytes THEN None
             ELSE speech_bytes

\* Mutant of rms_below_min_audio_level: the energy gate is left out.
rms_gate_off(chunk) == FALSE

\* rms < self.min_audio_level
rms_below_min_audio_level(chunk) == SumSq(chunk) < RmsGateSumSq

\* Mutant of silence_reached: strict comparison.
silence_reached_strict(s) == s.silence_samples > s.min_silence_samples

\* self._silence_samples >= self.min_silence_samples
silence_reached(s) == s.silence_samples >= s.min_silence_samples

\* Mutant of max_duration_reached: strict comparison.
max_duration_reached_strict(s) ==
    s.is_speaking /\ total_samples(s.speech_buffer) > max_speech_samples

\* self._is_speaking and total_samples >= self.max_speech_samples
max_duration_reached(s) ==
    s.is_speaking /\ total_samples(s.speech_buffer) >= max_speech_samples

\* Mutant of speech_confirmed: the consecutive-frame count is not tested.
speech_confirmed_no_debounce(s) == s.speech_samples >= min_speech_samples

\* self._consecutive_speech >= self._min_consecutive_speech and
\* self._speech_samples >= self.min_speech_samples
speech_confirmed(s) ==
    /\ s.consecutive_speech >= min_consecutive_speech
    /\ s.speech_samples >= min_speech_samples

\* Mutant of ClosedBySilence: the accumulated silence is kept.
ClosedBySilenceKeepsSilence(s) ==
    [s EXCEPT !.is_speaking = FALSE, !.speech_buffer = <<>>,
              !.speech_samples = 0]

\* The four assignments made when a segment is closed by silence.
ClosedBySilence(s) ==
    [s EXCEPT !.is_speaking = FALSE, !.speech_buffer = <<>>,
              !.speech_samples = 0, !.silence_samples = 0]

\* The five assignments made when a segment is closed by max duration.
ClosedByMaxDuration(s) ==
    [s EXCEPT !.is_speaking = FALSE, !.speech_buffer = <<>>,
              !.speech_samples = 0, !.silence_samples = 0,
              !.consecutive_speech = 0]

Event(kind, s, closed) ==
    [kind |-> kind, was_speaking |-> s.is_speaking, sil |-> s.silence_samples,
     total |-> total_samples(s.speech_buffer), csil |-> s.consecutive_silence,
     closed |-> closed]

\* One pass of the while loop for a frame that is silence: either below the
\* energy gate (kind "quiet") or classified as non-speech (kind "silence").
\* Result: the new state, whether process_audio returns, and its result.
SilentFrame(s, chunk, kind) ==
    LET s1 == [s EXCEPT !.consecutive_speech = 0,
                        !.consecutive_silence = @ + 1]
    IN  IF s1.is_speaking
        THEN LET s2 == [s1 EXCEPT !.silence_samples = @ + CHUNK_SIZE,
                                  !.speech_buffer = Append(@, chunk)]
             IN  IF silence_reached(s2)
                 THEN LET speech_bytes == get_speech_bytes(s2)
                      IN  IF speech_bytes # None
                          THEN [vad |-> ClosedBySilence(s2), returns |-> TRUE,
                                ret |-> [ended |-> TRUE, audio |-> speech_bytes],
                                ev |-> Event(kind, s2, "emit")]
                          ELSE [vad |-> ClosedBySilence(s2), returns |-> FALSE,
                                ret |-> NoRet, ev |-> Event(kind, s2, "discard")]
                 ELSE [vad |-> s2, returns |-> FALSE, ret |-> NoRet,
                       ev |-> Event(kind, s2, "no")]
        ELSE IF kind = "silence" /\ s1.consecutive_silence > IdleClearAfter
                /\ s1.speech_buffer # <<>>
             THEN [vad |-> [s1 EXCEPT !.speech_buffer = <<>>,
                                      !.speech_samples = 0],
                   returns |-> FALSE, ret |-> NoRet, ev |-> Event(kind, s1, "no")]
             ELSE [vad |-> s1, returns |-> FALSE, ret |-> NoRet,
                   ev |-> Event(kind, s1, "no")]

\* One pass of the while loop for a frame classified as speech.
SpeechFrame(s, chunk) ==
    LET s1 == [s EXCEPT !.consecutive_speech = @ + 1,
                        !.consecutive_silence = 0,
                        !.silence_samples = 0,
                        !.speech_samples = @ + CHUNK_SIZE,
                        !.speech_buffer = Append(@, chunk)]
        s2 == IF ~s1.is_speaking /\ speech_confirmed(s1)
              THEN [s1 EXCEPT !.is_speaking = TRUE]
              ELSE s1
    IN  IF max_duration_reached(s2)
        THEN LET speech_bytes == get_speech_bytes(s2)
             IN  IF speech_bytes # None
                 THEN [vad |-> ClosedByMaxDuration(s2), returns |-> TRUE,
                       ret |-> [ended |-> TRUE, audio |-> speech_bytes],
                       ev |-> Event("speech", s2, "emit")]
                 ELSE [vad |-> ClosedByMaxDuration(s2), returns |-> FALSE,
                       ret |-> NoRet, ev |-> Event("speech", s2, "discard")]
        ELSE [vad |-> s2, returns |-> FALSE, ret |-> NoRet,
              ev |-> Event("speech", s2, "no")]

\* The classifier's answers for one frame: speech_prob > threshold,
\* speech_prob <= threshold, or the inference call raised.
Verdicts == {"speech", "silence", "error"}

\* Mutant of ProcessChunk: a frame below the energy gate is skipped without
\* being buffered.
ProcessChunkQuietDropped(s, chunk, verdict) ==
    IF rms_below_min_audio_level(chunk)
    THEN [vad |-> s, returns |-> FALSE, ret |-> NoRet,
          ev |-> Event("quiet", s, "no")]
    ELSE IF verdict = "error"
         THEN [vad |-> s, returns |-> FALSE, ret |-> NoRet,
               ev |-> Event("error", s, "no")]
    ELSE IF verdict = "speech" THEN SpeechFrame(s, chunk)
    ELSE SilentFrame(s, chunk, "silence")

\* Mutant of ProcessChunk: a frame whose classifier call raised is handled
\* as a frame classified as non-speech.
ProcessChunkErrorAsSilence(s, chunk, verdict) ==
    IF rms_below_min_audio_level(chunk) THEN SilentFrame(s, chunk, "quiet")
    ELSE IF verdict = "speech" THEN SpeechFrame(s, chunk)
    ELSE SilentFrame(s, chunk, "silence")

\* The body of the while loop for one frame already taken from
\* _pending_audio; verdict is what the classifier would answer for it.
ProcessChunk(s, chunk, verdict) ==
    IF rms_below_min_audio_level(chunk) THEN SilentFrame(s, chunk, "quiet")
    ELSE IF verdict = "error"
         THEN [vad |-> s, returns |-> FALSE, ret |-> NoRet,
               ev |-> Event("error", s, "no")]
    ELSE IF verdict = "speech" THEN SpeechFrame(s, chunk)
    ELSE SilentFrame(s, chunk, "silence")

RECURSIVE ProcessLoop(_, _, _, _)
\* while len(self._pending_audio) >= self.CHUNK_SIZE: ...; return (False, None)
\* verdicts[i] is the classifier's answer for the i-th frame of this call;
\* last is the event of the frame processed before.
ProcessLoop(s, verdicts, i, last) ==
    IF NumSamples(s.pending_audio) < CHUNK_SIZE
    THEN [vad |-> s, ret |-> NoRet, obs |-> last]
    ELSE LET chunk == TakeSamples(s.pending_audio, CHUNK_SIZE)
             s1 == [s EXCEPT !.pending_audio = DropSamples(@, CHUNK_SIZE)]
             r == ProcessChunk(s1, chunk, verdicts[i])
             ev == [frames |-> i] @@ r.ev
         IN  IF r.returns
             THEN [vad |-> r.vad, ret |-> r.ret, obs |-> ev]
             ELSE ProcessLoop(r.vad, verdicts, i + 1, ev)

\* Mutant of process_audio: the new samples replace the pending ones.
process_audio_replacing_pending(s, audio, verdicts) ==
    IF s.processing_lock
    THEN [vad |-> s, ret |-> NoRet, obs |-> [NoObs EXCEPT !.kind = "locked"]]
    ELSE ProcessLoop([s EXCEPT !.pending_audio = audio], verdicts, 1, NoObs)

\* Mutant of process_audio: the processing lock is not tested.
process_audio_ignoring_lock(s, audio, verdicts) ==
    ProcessLoop([s EXCEPT !.pending_audio = Concat(@, audio)], verdicts, 1, NoObs)

\* VADService.process_audio (the model is initialized: self.model is set)
process_audio(s, audio, verdicts) ==
    IF s.processing_lock
    THEN [vad |-> s, ret |-> NoRet, obs |-> [NoObs EXCEPT !.kind = "locked"]]
    ELSE ProcessLoop([s EXCEPT !.pending_audio = Concat(@, audio)],
                     verdicts, 1, NoObs)

\* The number of frames after which the buffered duration reaches
\* max_speech_samples.
FramesToMax == (max_speech_samples + CHUNK_SIZE - 1) \div CHUNK_SIZE

\* One frame of one amplitude.
Frames == {<<[lv |-> lv, n |-> CHUNK_SIZE]>> : lv \in Levels}

\* ------------------------------------------------------------------------
\* SpecVad: one VADService driven through its public methods in any order
\* ------------------------------------------------------------------------
\* The i-th frame the loop takes from the audio a call starts with.
FrameAt(all, i) == TakeSamples(DropSamples(all, (i - 1) * CHUNK_SIZE), CHUNK_SIZE)

\* The frame's RMS is below min_audio_level = 0.01, stated on the mean square
\* of the samples: mean(v^2) < (0.01 * 32768)^2 = 107374.1824.
BelowGate(chunk) ==
    LET q == SumSq(chunk) \div CHUNK_SIZE
        r == SumSq(chunk) % CHUNK_SIZE
    IN  q < 107374 \/ (q = 107374 /\ r * 10000 < 1824 * CHUNK_SIZE)

\* History of what has been fed since the last reset.
HistAfter(h, s, audio, verdicts, r) ==
    LET all == Concat(s.pending_audio, audio)
        fed == 1..r.obs.frames
    IN  [ allQuiet   |-> h.allQuiet /\ \A i \in fed : BelowGate(FrameAt(all, i)),
          onlySpeech |-> /\ h.onlySpeech
                         /\ ~s.processing_lock
                         /\ \A i \in fed : /\ ~BelowGate(FrameAt(all, i))
                                           /\ verdicts[i] = "speech",
          framesFed  |-> h.framesFed + r.obs.frames,
          emitted    |-> h.emitted + (IF r.ret.ended THEN 1 ELSE 0) ]

\* The audio of one push: PCM bytes of one amplitude.
Pushes == {<<[lv |-> lv, n |-> n]>> : lv \in Levels, n \in PushLens}

\* The number of whole frames a call can take from its input.
FramesIn(s, audio) == (NumSamples(s.pending_audio) + NumSamples(audio)) \div CHUNK_SIZE

\* The client changes amplitude on frame boundaries only: a push continues
\* the amplitude of the samples still pending.
Continues(s, audio) ==
    IF s.pending_audio = <<>> THEN TRUE
    ELSE s.pending_audio[1].lv = audio[1].lv

VadProcess ==
    /\ hist.framesFed < MaxFramesFed
    /\ \E audio \in Pushes :
         /\ Continues(vad, audio)
         /\ \E verdicts \in [1..FramesIn(vad, audio) -> Verdicts] :
              LET r == process_audio(vad, audio, verdicts)
              IN  /\ vad' = r.vad
                  /\ ret' = r.ret
                  /\ obs' = r.obs
                  /\ hist' = HistAfter(hist, vad, audio, verdicts, r)
    /\ UNCHANGED server_vars

VadSetProcessing ==
    /\ \E b \in BOOLEAN : vad' = set_processing(vad, b)
    /\ hist' = [hist EXCEPT !.onlySpeech = FALSE]
    /\ UNCHANGED <<ret, obs>>
    /\ UNCHANGED server_vars

VadReset ==
    /\ vad' = reset(vad)
    /\ ret' = NoRet
    /\ obs' = NoObs
    /\ hist' = HistInit
    /\ UNCHANGED server_vars

\* LLMService.__init__
LlmInit == [exchange_count |-> 0, conversation_history |-> <<>>,
            full_conversation_archive |-> <<>>]

OrchInit == [full_response |-> <<>>, text_buffer |-> <<>>, chunk_index |-> 0,
             chunk_text |-> <<>>]

GenInit == [full_response |-> <<>>, sentence_buffer |-> <<>>,
            yielded_count |-> 0, nread |-> 0, at |-> "idle"]

\* n: turns started; active: between lock and unlock; how: the path the
\* turn took; flushed: the chunk texts the orchestrator flushed; synth: the
\* outcome of the synthesis call of each chunk, in order; failed: llm.astream
\* raised in this turn; interrupted: the client sent an interrupt while the
\* turn was in progress, when cut events of the turn had been sent; cleared:
\* the history was cleared after the turn started; reached: the turns that
\* called stream_response_with_tts since the last clear; echo: the segment
\* of this turn was cut from audio the client sent while the turn before was
\* in progress.
TurnInit == [n |-> 0, active |-> FALSE, how |-> "none", flushed |-> <<>>,
             synth |-> <<>>, failed |-> FALSE, interrupted |-> FALSE,
             cut |-> 0, cleared |-> FALSE, reached |-> 0, echo |-> FALSE]

\* The websocket clients of SpecSessions.
Sessions == {"A", "B"}

\* What each client says (the transcript of its utterances).
Utterance == [A |-> <<"h", "i">>, B |-> <<"y", "o">>]

\* The VADService instances of SpecInit.
NumInstances == 4
Instances == 1..NumInstances

\* A client that has not connected: no services, no session id.
NoSession == [at |-> "none", sid |-> 0, vad |-> VadInit, llm |-> LlmInit,
              turns |-> 0]

\* Module level of server.py and vad.py: active_sessions = {}, no
\* output.json written, _VAD_MODEL = None (0), no VADService initialized.
\* fb is the history of the frame buffer of SpecFrames: the samples pushed
\* in unlocked calls, and those that have left the segment buffer.  run is
\* the history of the frames of SpecRuns: how many were processed, and which
\* of them is the oldest frame of the segment buffer.
WorldInit ==
    [ sess        |-> [s \in Sessions |-> NoSession],
      fb          |-> [pushed |-> <<>>, done |-> <<>>],
      run         |-> [fed |-> 0, first |-> 0],
      reg         |-> {},
      next_id     |-> 1,
      output_json |-> <<>>,
      actor       |-> "none",
      VAD_MODEL   |-> 0,
      loads       |-> 0,
      inst        |-> [i \in Instances |-> [at |-> "new", model |-> 0]] ]

InitServer ==
    /\ world = WorldInit
    /\ pc = "recv"
    /\ conn = [is_connected |-> TRUE, peer_up |-> TRUE, queued |-> FALSE,
               audio |-> None]
    /\ sent = <<>>
    /\ llm = LlmInit
    /\ orch = OrchInit
    /\ gen = GenInit
    /\ turn = TurnInit

InitVad ==
    /\ vad = VadInit
    /\ ret = NoRet
    /\ obs = NoObs
    /\ hist = HistInit
    /\ InitServer

NextVad == VadProcess \/ VadSetProcessing \/ VadReset

SpecVad == InitVad /\ [][NextVad]_vars

\* SpecVadShort: a VADService built with a min_silence_duration shorter
\* than min_consecutive_silence frames, VADService(min_silence_duration =
\* ShortSilenceSamples / sample_rate).
ShortSilenceSamples == 1024

InitVadShort ==
    /\ vad = [VadInit EXCEPT !.min_silence_samples = ShortSilenceSamples]
    /\ ret = NoRet
    /\ obs = NoObs
    /\ hist = HistInit
    /\ InitServer

SpecVadShort == InitVadShort /\ [][NextVad]_vars

\* ------------------------------------------------------------------------
\* Spec: one websocket session (voice_websocket) with its turn controller
\* (process_audio_safe), the orchestrator (stream_response_with_tts) and the
\* sentence source (LLMService.generate_stream).
\*
\* The handler coroutine is suspended at pc:
\*   "recv"        await websocket.receive_text()
\*   "transcribe"  await stt_service.transcribe(speech_audio)
\*   "gen"         generate_stream awaits the next chunk of llm.astream
\*   "synth"       await tts_service.synthesize(chunk_text) inside the loop
\*   "final_synth" await tts_service.synthesize(chunk_text) after the loop
\*   "closed"      voice_websocket has returned
\* A step runs the code from one suspension to the next; st is the record
\* of everything that code can change.
\* ------------------------------------------------------------------------
Cur == [vad |-> vad, pc |-> pc, conn |-> conn, sent |-> sent, llm |-> llm,
        orch |-> orch, gen |-> gen, turn |-> turn]

Install(st) ==
    /\ vad' = st.vad
    /\ pc' = st.pc
    /\ conn' = st.conn
    /\ sent' = st.sent
    /\ llm' = st.llm
    /\ orch' = st.orch
    /\ gen' = st.gen
    /\ turn' = st.turn
    /\ world' = world

\* safe_send: nothing once is_connected is false; a send to a peer that has
\* gone raises inside safe_send, which clears is_connected.  Only the events
\* of a turn are kept in sent.
safe_send(st, ev) ==
    IF ~st.conn.is_connected THEN st
    ELSE IF ~st.conn.peer_up THEN [st EXCEPT !.conn.is_connected = FALSE]
    ELSE IF st.turn.active THEN [st EXCEPT !.sent = Append(@, ev)]
    ELSE st

Status(x) == [type |-> "status", status |-> x]

\* Mutant of archive_message: the new entry replaces the archive's last
\* entry instead of being appended.
archive_message_overwrites(l, role, content) ==
    [l EXCEPT !.full_conversation_archive =
        (IF @ = <<>> THEN @ ELSE SubSeq(@, 1, Len(@) - 1))
        \o <<[exchange_number |-> l.exchange_count, role |-> role,
               content |-> content]>>]

\* LLMService._archive_message
archive_message(l, role, content) ==
    [l EXCEPT !.full_conversation_archive =
        Append(@, [exchange_number |-> l.exchange_count, role |-> role,
                   content |-> content])]

\* Mutant of clear_history: exchange_count is not reset.
clear_history_keeps_count(l) ==
    [LlmInit EXCEPT !.exchange_count = l.exchange_count]

\* LLMService.clear_history
clear_history(l) == LlmInit

\* voice_websocket after a handler returned: the while loop goes on while
\* is_connected, else the finally block resets the segmenter.
EndHandler(st) ==
    IF st.conn.is_connected THEN [st EXCEPT !.pc = "recv"]
    ELSE [st EXCEPT !.pc = "closed", !.vad = reset(st.vad)]

\* Mutant of TurnExit: the finally block of process_audio_safe is missing.
TurnExitNoFinally(st, how) ==
    EndHandler([st EXCEPT !.turn.active = FALSE, !.turn.how = how])

\* process_audio_safe, finally: session_vad.set_processing(False)
TurnExit(st, how) ==
    EndHandler([st EXCEPT !.vad = set_processing(st.vad, FALSE),
                          !.turn.active = FALSE, !.turn.how = how])

\* The end of stream_response_with_tts (assistant transcript, stats) and of
\* process_audio_safe (status ready, unlock).
Finish(st) ==
    LET s1 == safe_send(st, [type |-> "transcript", role |-> "assistant",
                             text |-> st.orch.full_response])
        s2 == safe_send(s1, [type |-> "stats",
                             exchange_count |-> st.llm.exchange_count])
        s3 == safe_send(s2, Status("ready"))
    IN  TurnExit(s3, "normal")

\* Mutant of SendTextChunk: status speaking is sent with every chunk.
SendTextChunkAlwaysSpeaking(st, chunk_text) ==
    safe_send(safe_send(st, Status("speaking")),
              [type |-> "text_chunk", text |-> chunk_text,
               index |-> st.orch.chunk_index])

\* "if chunk_index == 0: send status speaking" and the text_chunk event
SendTextChunk(st, chunk_text) ==
    LET s1 == IF st.orch.chunk_index = 0
              THEN safe_send(st, Status("speaking")) ELSE st
    IN  safe_send(s1, [type |-> "text_chunk", text |-> chunk_text,
                       index |-> st.orch.chunk_index])

\* stream_response_with_tts after the async for: "Handle any remaining text"
OrchTail(st) ==
    IF strip(st.orch.text_buffer) # <<>>
    THEN LET chunk_text == strip(st.orch.text_buffer)
             s1 == SendTextChunk(st, chunk_text)
         IN  [s1 EXCEPT !.orch.chunk_text = chunk_text,
                        !.turn.flushed = Append(@, chunk_text),
                        !.pc = "final_synth"]
    ELSE Finish(st)

\* generate_stream resumed after its last yield: after the remainder it
\* archives the complete response; after the apology it just ends.
GenFinish(st) ==
    LET g == st.gen
        s1 == IF g.at # "failed" /\ strip(g.full_response) # <<>>
              THEN [st EXCEPT
                      !.llm = archive_message(
                                [st.llm EXCEPT !.conversation_history =
                                    Append(@, [role |-> "assistant",
                                               content |-> g.full_response])],
                                "assistant", g.full_response)]
              ELSE st
    IN  OrchTail([s1 EXCEPT !.gen.at = "idle"])

\* The orchestrator asks the generator for the next sentence.
Resume(st) ==
    IF st.gen.at = "loop" THEN [st EXCEPT !.pc = "gen"]
    ELSE GenFinish(st)

\* The chunking rule of stream_response_with_tts on the pending text.
should_synthesize(text_buffer) ==
    \/ ContainsAny(text_buffer, sentence_endings)
    \/ word_count(text_buffer) >= 3 /\ ContainsAny(text_buffer, clause_endings)
    \/ word_count(text_buffer) >= 6

\* One pass of the async for of stream_response_with_tts up to the await of
\* the synthesis call (or to the next read when nothing is flushed).
OrchToken(st, token) ==
    LET o == [st.orch EXCEPT !.full_response = @ \o token,
                             !.text_buffer = @ \o token]
        s1 == [st EXCEPT !.orch = o]
    IN  IF should_synthesize(o.text_buffer) /\ strip(o.text_buffer) # <<>>
        THEN LET chunk_text == strip(o.text_buffer)
                 s2 == SendTextChunk(s1, chunk_text)
             IN  [s2 EXCEPT !.orch.text_buffer = <<>>,
                            !.orch.chunk_text = chunk_text,
                            !.turn.flushed = Append(@, chunk_text),
                            !.pc = "synth"]
        ELSE Resume(s1)

\* What tts_service.synthesize may do for a text: it returns b"" without a
\* request for text with no alphanumeric character; else it returns audio,
\* returns b"" (any failure it catches) or raises.
SynthOutcomes(text) ==
    IF \E i \in 1..Len(text) : IsAlnum(text[i])
    THEN {"audio", "empty", "raise"}
    ELSE {"empty"}

\* Mutant of SynthDone: the audio event carries the index of the chunk
\* before.
SynthDoneLateIndex(st, outcome) ==
    LET s1 == IF outcome = "audio"
              THEN safe_send(st, [type |-> "audio_chunk",
                                  index |-> IF st.orch.chunk_index > 0
                                            THEN st.orch.chunk_index - 1
                                            ELSE 0,
                                  is_final |-> FALSE])
              ELSE st
    IN  Resume([s1 EXCEPT !.orch.chunk_index = @ + 1,
                          !.turn.synth = Append(@, outcome)])

\* Mutant of SynthDone: a failed synthesis skips the rest of the loop body,
\* so chunk_index is not advanced.
SynthDoneSkipOnFailure(st, outcome) ==
    IF outcome = "audio"
    THEN Resume([safe_send(st, [type |-> "audio_chunk",
                                index |-> st.orch.chunk_index,
                                is_final |-> FALSE])
                   EXCEPT !.orch.chunk_index = @ + 1,
                          !.turn.synth = Append(@, outcome)])
    ELSE Resume([st EXCEPT !.turn.synth = Append(@, outcome)])

\* The loop body after the synthesis call: audio_chunk if there is audio,
\* chunk_index += 1, next iteration.
SynthDone(st, outcome) ==
    LET s1 == IF outcome = "audio"
              THEN safe_send(st, [type |-> "audio_chunk",
                                  index |-> st.orch.chunk_index,
                                  is_final |-> FALSE])
              ELSE st
    IN  Resume([s1 EXCEPT !.orch.chunk_index = @ + 1,
                          !.turn.synth = Append(@, outcome)])

\* The final chunk after its synthesis call: audio_chunk with is_final.
FinalSynthDone(st, outcome) ==
    LET s1 == IF outcome = "audio"
              THEN safe_send(st, [type |-> "audio_chunk",
                                  index |-> st.orch.chunk_index,
                                  is_final |-> TRUE])
              ELSE st
    IN  Finish([s1 EXCEPT !.turn.synth = Append(@, outcome)])

\* generate_stream, one chunk of llm.astream.
GenChunk(st, token) ==
    LET s0 == [st EXCEPT !.gen.nread = @ + 1]
    IN  IF token = <<>> THEN s0
        ELSE LET g == [s0.gen EXCEPT !.full_response = @ \o token,
                                     !.sentence_buffer = @ \o token]
                 sentence == strip(g.sentence_buffer)
             IN  IF ContainsAny(token, sentence_endings) /\ Len(sentence) > 5
                 THEN OrchToken([s0 EXCEPT !.gen = [g EXCEPT
                                       !.sentence_buffer = <<>>,
                                       !.yielded_count = @ + 1]],
                                sentence)
                 ELSE [s0 EXCEPT !.gen = g]

\* generate_stream when llm.astream is exhausted: "Yield any remaining text"
GenEnd(st) ==
    LET rest == strip(st.gen.sentence_buffer)
    IN  IF rest # <<>> /\ Len(rest) > 3
        THEN OrchToken([st EXCEPT !.gen.yielded_count = @ + 1,
                                  !.gen.at = "tail"], rest)
        ELSE GenFinish([st EXCEPT !.gen.at = "tail"])

\* Mutant of GenFail: after the apology the generator goes on reading
\* llm.astream.
GenFailKeepsReading(st) ==
    OrchToken([st EXCEPT !.turn.failed = TRUE], Apology)

\* generate_stream when llm.astream raises: the except clause yields the
\* apology.
GenFail(st) ==
    OrchToken([st EXCEPT !.gen.at = "failed", !.turn.failed = TRUE], Apology)

\* What stt_service.transcribe may do: raise, or return a transcript.
SttOutcomes ==
    {[raised |-> TRUE, text |-> <<>>]}
    \cup {[raised |-> FALSE, text |-> t] : t \in Transcripts}

\* Mutant of AfterTranscribe: the "if transcript.strip()" test is left out.
AfterTranscribeNoSkip(st, stt, built) ==
    IF stt.raised
    THEN TurnExit(safe_send(st, [type |-> "error",
                                 message |-> "Transcription failed"]),
                  "stt_error")
    ELSE LET outcome == stt.text
             s1 == safe_send(st, [type |-> "transcript", role |-> "user",
                                  text |-> outcome])
             s2 == safe_send(s1, Status("thinking"))
             l1 == [s2.llm EXCEPT !.exchange_count = @ + 1,
                                  !.conversation_history =
                                      Append(@, [role |-> "user",
                                                 content |-> outcome])]
             s3 == [s2 EXCEPT !.llm = archive_message(l1, "user", outcome),
                              !.turn.reached = @ + 1,
                              !.orch = OrchInit,
                              !.gen = [GenInit EXCEPT !.at = "loop"]]
         IN  IF built
             THEN [s3 EXCEPT !.pc = "gen"]
             ELSE LET s4 == safe_send(s3, [type |-> "error", message |->
                                           "Response generation failed"])
                  IN  TurnExit(safe_send(s4, Status("ready")), "stream_error")

\* process_audio_safe from the transcription result on.  built tells whether
\* _build_messages (get_system_prompt, query_resume) returned or raised.
AfterTranscribe(st, stt, built) ==
    IF stt.raised
    THEN TurnExit(safe_send(st, [type |-> "error",
                                 message |-> "Transcription failed"]),
                  "stt_error")
    ELSE IF strip(stt.text) = <<>>
    THEN TurnExit(safe_send(st, Status("ready")), "empty")
    ELSE LET outcome == stt.text
             s1 == safe_send(st, [type |-> "transcript", role |-> "user",
                                  text |-> outcome])
             s2 == safe_send(s1, Status("thinking"))
             \* generate_stream up to its try: exchange_count += 1,
             \* _build_messages
             l1 == [s2.llm EXCEPT !.exchange_count = @ + 1,
                                  !.conversation_history =
                                      Append(@, [role |-> "user",
                                                 content |-> outcome])]
             s3 == [s2 EXCEPT !.llm = archive_message(l1, "user", outcome),
                              !.turn.reached = @ + 1,
                              !.orch = OrchInit,
                              !.gen = [GenInit EXCEPT !.at = "loop"]]
         IN  IF built
             THEN [s3 EXCEPT !.pc = "gen"]
             ELSE LET s4 == safe_send(s3, [type |-> "error", message |->
                                           "Response generation failed"])
                  IN  TurnExit(safe_send(s4, Status("ready")), "stream_error")

\* The audio of one "audio" message of the session: whole frames.
ServerPushes == {a \in Pushes : NumSamples(a) % CHUNK_SIZE = 0}

\* voice_websocket, message "audio": process_audio_safe up to its first
\* await after the segmenter (the transcription call) or to its return.
HandleAudio(audio, verdicts) ==
    LET r == process_audio(vad, audio, verdicts)
        s1 == [Cur EXCEPT !.vad = r.vad, !.conn.audio = None]
        s2 == IF r.vad.is_speaking
              THEN safe_send(s1, Status("listening")) ELSE s1
        started == r.ret.ended /\ r.ret.audio # None
        s3 == [s2 EXCEPT !.vad = set_processing(s2.vad, TRUE),
                         !.sent = <<>>,
                         !.turn = [TurnInit EXCEPT
                                      !.n = turn.n + 1,
                                      !.active = TRUE,
                                      !.reached = turn.reached,
                                      !.echo = (conn.audio # None)]]
    IN  /\ ret' = r.ret
        /\ obs' = r.obs
        /\ hist' = IF started THEN HistInit
                   ELSE HistAfter(hist, vad, audio, verdicts, r)
        /\ IF started
           THEN Install([safe_send(s3, Status("processing"))
                           EXCEPT !.pc = "transcribe"])
           ELSE Install(EndHandler(s2))

\* The next message is an "audio" message the client sends now.  The audio
\* is drawn from pushes, the classifier's answers from verdictSet, and the
\* session runs at most maxTurns turns.
RecvAudioOf(pushes, verdictSet, maxTurns) ==
    /\ pc = "recv" /\ conn.peer_up /\ ~conn.queued /\ conn.audio = None
    /\ turn.n < maxTurns
    /\ hist.framesFed < MaxFramesFed
    /\ \E audio \in pushes :
         \E verdicts \in [1..FramesIn(vad, audio) -> verdictSet] :
            HandleAudio(audio, verdicts)

RecvAudio == RecvAudioOf(ServerPushes, Verdicts, MaxTurns)

\* The transcription call returns or raises; for a transcript the code runs
\* on into generate_stream up to the first read of llm.astream.
Transcribe ==
    /\ pc = "transcribe"
    /\ \E outcome \in SttOutcomes, built \in BOOLEAN :
         Install(AfterTranscribe(Cur, outcome, built))
    \* speech_ended / speech_audio are not read after the call
    /\ ret' = NoRet
    /\ obs' = NoObs
    /\ UNCHANGED hist

\* llm.astream delivers a chunk, one of tokens.
LlmChunkOf(tokens) ==
    /\ pc = "gen"
    /\ \E token \in tokens : Install(GenChunk(Cur, token))
    /\ UNCHANGED <<ret, obs, hist>>

LlmChunk == gen.nread < MaxRawTokens /\ LlmChunkOf(Tokens)

\* llm.astream is exhausted.
LlmEnd ==
    /\ pc = "gen"
    /\ Install(GenEnd(Cur))
    /\ UNCHANGED <<ret, obs, hist>>

\* llm.astream raises.
LlmFail ==
    /\ pc = "gen"
    /\ Install(GenFail(Cur))
    /\ UNCHANGED <<ret, obs, hist>>

\* The synthesis call of a chunk flushed inside the loop completes.
Synth ==
    /\ pc = "synth"
    /\ \E outcome \in SynthOutcomes(orch.chunk_text) :
         Install(SynthDone(Cur, outcome))
    /\ UNCHANGED <<ret, obs, hist>>

\* The synthesis call of the final chunk completes.
FinalSynth ==
    /\ pc = "final_synth"
    /\ \E outcome \in SynthOutcomes(orch.chunk_text) :
         Install(FinalSynthDone(Cur, outcome))
    /\ UNCHANGED <<ret, obs, hist>>

\* voice_websocket, message "clear"
RecvClear ==
    /\ pc = "recv" /\ conn.peer_up /\ ~conn.queued
    /\ LET s1 == [Cur EXCEPT !.llm = clear_history(llm), !.vad = reset(vad),
                             !.turn.cleared = (turn.n > 0),
                             !.turn.reached = 0]
           s2 == safe_send(s1, [type |-> "cleared"])
       IN  Install(EndHandler(safe_send(s2, Status("ready"))))
    /\ ret' = NoRet /\ obs' = NoObs /\ hist' = HistInit

\* voice_websocket, message "new_session": history cleared, segmenter
\* reset, the greeting synthesized and sent.
RecvNewSession ==
    /\ pc = "recv" /\ conn.peer_up /\ ~conn.queued
    /\ LET s1 == [Cur EXCEPT !.llm = clear_history(llm), !.vad = reset(vad),
                             !.turn.cleared = (turn.n > 0),
                             !.turn.reached = 0]
           s2 == safe_send(s1, [type |-> "new_session"])
           s3 == safe_send(s2, Status("ready"))
           s4 == safe_send(s3, [type |-> "stats", exchange_count |-> 0])
           s5 == safe_send(s4, Status("thinking"))
           s6 == safe_send(s5, [type |-> "audio_chunk", is_final |-> TRUE])
       IN  \E greeting \in {"audio", "empty", "raise"} :
             Install(EndHandler(safe_send(
                IF greeting = "audio"
                THEN safe_send(s6, [type |-> "transcript", role |-> "assistant"])
                ELSE s5,
                Status("ready"))))
    /\ ret' = NoRet /\ obs' = NoObs /\ hist' = HistInit

\* voice_websocket, message "interrupt": one the peer sends now, or the one
\* it sent while the handler was busy.
RecvInterrupt ==
    /\ pc = "recv" /\ (conn.peer_up \/ conn.queued)
    /\ LET s1 == [Cur EXCEPT !.vad = set_processing(reset(vad), FALSE),
                             !.conn.queued = FALSE]
           s2 == safe_send(s1, [type |-> "interrupted"])
       IN  Install(EndHandler(safe_send(s2, Status("ready"))))
    /\ ret' = NoRet /\ obs' = NoObs /\ hist' = HistInit

\* The client goes away; the server notices at its next send or receive.
PeerCloses ==
    /\ pc # "closed" /\ conn.peer_up
    /\ conn' = [conn EXCEPT !.peer_up = FALSE]
    /\ UNCHANGED <<vad, ret, obs, hist, pc, sent, llm, orch, gen, turn, world>>

\* websocket.receive_text() raises WebSocketDisconnect: the loop is left and
\* the finally block runs.
RecvDisconnect ==
    /\ pc = "recv" /\ ~conn.peer_up /\ ~conn.queued
    /\ Install([Cur EXCEPT !.conn.is_connected = FALSE, !.vad = reset(vad),
                           !.pc = "closed"])
    /\ UNCHANGED <<ret, obs, hist>>

Init ==
    /\ vad = VadInit
    /\ ret = NoRet
    /\ obs = NoObs
    /\ hist = HistInit
    /\ InitServer

Next ==
    \/ RecvAudio
    \/ Transcribe
    \/ LlmChunk
    \/ LlmEnd
    \/ LlmFail
    \/ Synth
    \/ FinalSynth
    \/ RecvClear
    \/ RecvNewSession
    \/ RecvInterrupt
    \/ PeerCloses
    \/ RecvDisconnect

Spec == Init /\ [][Next]_vars

\* ------------------------------------------------------------------------
\* SpecTurns: one websocket session running several turns.  Each audio
\* message holds a whole utterance (continuous speech up to the max-duration
\* close), the LLM streams one of a few fixed responses, and the client may
\* send an interrupt while a turn is in progress.
\* ------------------------------------------------------------------------
\* The session of SpecTurns runs at most this many turns.
MaxSessionTurns == 2

\* The response llm.astream may deliver in SpecTurns, chunk by chunk (or a
\* prefix of it).
Responses ==
    { << <<"H", "e", "l", "l", "o", ".">>,
         <<" ", "G", "o", " ", "o", "n">> >> }

\* The token streams of SpecStream: "Hello", ",", " how", " are", " you",
\* "?" and seven words without punctuation.
HelloStream ==
    << <<"H", "e", "l", "l", "o">>, <<",">>, <<" ", "h", "o", "w">>,
       <<" ", "a", "r", "e">>, <<" ", "y", "o", "u">>, <<"?">> >>

SevenWords ==
    << <<"o", "n", "e">>, <<" ", "t", "w", "o">>,
       <<" ", "t", "h", "r", "e", "e">>, <<" ", "f", "o", "u", "r">>,
       <<" ", "f", "i", "v", "e">>, <<" ", "s", "i", "x">>,
       <<" ", "s", "e", "v", "e", "n">> >>

Streams == {HelloStream, SevenWords}

RECURSIVE Flatten(_)
\* "".join(tokens)
Flatten(ts) == IF ts = <<>> THEN <<>> ELSE ts[1] \o Flatten(Tail(ts))

\* The chunks llm.astream may deliver next when it streams one of scripts,
\* given what generate_stream has read from it so far.
ScriptTokens(scripts, g) ==
    {sc[g.nread + 1] : sc \in {x \in scripts :
        /\ Len(x) > g.nread
        /\ Flatten(SubSeq(x, 1, g.nread)) = g.full_response}}

\* The audio of one "audio" message holding a whole utterance.
UtterancePushes == {<<[lv |-> Loud, n |-> FramesToMax * CHUNK_SIZE]>>}

RecvUtterance == RecvAudioOf(UtterancePushes, {"speech"}, MaxSessionTurns)

LlmScript == LlmChunkOf(ScriptTokens(Responses, gen))

\* The client sends an "interrupt" message while the handler is busy with a
\* turn; the message waits in the socket until the next receive_text().
ClientInterrupt ==
    /\ pc \in {"transcribe", "gen", "synth", "final_synth"}
    /\ conn.peer_up /\ ~conn.queued /\ ~turn.interrupted
    /\ conn' = [conn EXCEPT !.queued = TRUE]
    /\ turn' = [turn EXCEPT !.interrupted = TRUE, !.cut = Len(sent)]
    /\ UNCHANGED <<vad, ret, obs, hist, pc, sent, llm, orch, gen, world>>

NextTurns ==
    \/ RecvUtterance
    \/ Transcribe
    \/ LlmScript
    \/ LlmEnd
    \/ LlmFail
    \/ Synth
    \/ FinalSynth
    \/ RecvClear
    \/ RecvNewSession
    \/ RecvInterrupt
    \/ ClientInterrupt
    \/ PeerCloses
    \/ RecvDisconnect

SpecTurns == Init /\ [][NextTurns]_vars

\* ------------------------------------------------------------------------
\* SpecEcho: the session of SpecTurns with a client that goes on sending
\* audio while a turn is in progress (the microphone picks up the
\* assistant's playback).
\* ------------------------------------------------------------------------
\* The client sends an "audio" message while the handler is busy with a
\* turn; the message waits in the socket until the next receive_text().
ClientAudio ==
    /\ pc \in {"transcribe", "gen", "synth", "final_synth"}
    /\ conn.peer_up /\ ~conn.queued /\ conn.audio = None
    /\ turn.n < MaxSessionTurns
    /\ \E audio \in UtterancePushes : conn' = [conn EXCEPT !.audio = audio]
    /\ UNCHANGED <<vad, ret, obs, hist, pc, sent, llm, orch, gen, turn, world>>

\* The next message is the "audio" message that was waiting in the socket.
RecvQueuedAudio ==
    /\ pc = "recv" /\ conn.audio # None
    /\ HandleAudio(conn.audio, [i \in 1..FramesIn(vad, conn.audio) |-> "speech"])

NextEcho ==
    \/ RecvUtterance
    \/ Transcribe
    \/ LlmScript
    \/ LlmEnd
    \/ LlmFail
    \/ Synth
    \/ FinalSynth
    \/ ClientAudio
    \/ RecvQueuedAudio

SpecEcho == Init /\ [][NextEcho]_vars

\* ------------------------------------------------------------------------
\* SpecStream: one turn of a session whose LLM streams one of Streams (or a
\* prefix of it, or fails on the way).
\* ------------------------------------------------------------------------
RecvOneUtterance == RecvAudioOf(UtterancePushes, {"speech"}, MaxTurns)

LlmStream == LlmChunkOf(ScriptTokens(Streams, gen))

NextStream ==
    \/ RecvOneUtterance
    \/ Transcribe
    \/ LlmStream
    \/ LlmEnd
    \/ LlmFail
    \/ Synth
    \/ FinalSynth
    \/ PeerCloses
    \/ RecvDisconnect

SpecStream == Init /\ [][NextStream]_vars

\* ------------------------------------------------------------------------
\* SpecSessions: the clients of Sessions connected to one server process,
\* each with its own VADService and LLMService (voice_websocket), sharing
\* active_sessions and the working directory.  A step runs one session's
\* handler from one await to the next; a turn is three steps (segment found,
\* transcript archived, response archived).
\* ------------------------------------------------------------------------
\* Each session runs at most this many turns.
MaxTurnsEach == 1

\* uuid4 delivers at most this many session ids.
MaxSessionIds == 3

\* The state of the process after a step of session s that leaves s as r.
Step(s, r) == [world EXCEPT !.sess[s] = r, !.actor = s]

\* LLMService._archive_message of session s: append, then dump the archive
\* to "output.json" in the working directory.
archive_and_save(w, s, role, content) ==
    LET l == archive_message(w.sess[s].llm, role, content)
    IN  [w EXCEPT !.sess[s].llm = l,
                  !.output_json = l.full_conversation_archive]

\* voice_websocket up to the receive loop: the session's services are
\* created and the LLMService is registered under a fresh session id.
SConnect(s) ==
    /\ world.sess[s].at = "none"
    /\ world' = [Step(s, [NoSession EXCEPT !.at = "recv",
                                            !.sid = world.next_id])
                   EXCEPT !.reg = @ \cup {[sid |-> world.next_id, owner |-> s]},
                          !.next_id = @ + 1]
    /\ UNCHANGED session_vars

\* Message "audio" with a whole utterance: the segmenter returns a segment
\* and process_audio_safe locks it and awaits the transcription.
SAudio(s) ==
    LET r == world.sess[s]
    IN  /\ r.at = "recv" /\ r.turns < MaxTurnsEach
        /\ \E audio \in UtterancePushes :
              LET res == process_audio(r.vad, audio,
                                       [i \in 1..FramesIn(r.vad, audio) |-> "speech"])
              IN  world' = Step(s,
                     IF res.ret.ended /\ res.ret.audio # None
                     THEN [r EXCEPT !.vad = set_processing(res.vad, TRUE),
                                    !.at = "transcribe", !.turns = @ + 1]
                     ELSE [r EXCEPT !.vad = res.vad])
        /\ UNCHANGED session_vars

\* The transcription returns: an empty transcript ends the turn, else
\* generate_stream counts the exchange and _build_messages archives the
\* user's message.
STranscribe(s) ==
    LET r == world.sess[s]
    IN  /\ r.at = "transcribe"
        /\ \E text \in {<<>>, Utterance[s]} :
              IF strip(text) = <<>>
              THEN world' = Step(s, [r EXCEPT !.vad = set_processing(@, FALSE),
                                              !.at = "recv"])
              ELSE LET l1 == [r.llm EXCEPT !.exchange_count = @ + 1,
                                           !.conversation_history =
                                               Append(@, [role |-> "user",
                                                          content |-> text])]
                       w1 == Step(s, [r EXCEPT !.llm = l1, !.at = "gen"])
                   IN  world' = archive_and_save(w1, s, "user", text)
        /\ UNCHANGED session_vars

\* The response stream ends: generate_stream archives the response (or,
\* when llm.astream raised, nothing) and process_audio_safe unlocks.
SRespond(s) ==
    LET r == world.sess[s]
    IN  /\ r.at = "gen"
        /\ \E failed \in BOOLEAN, response \in {Flatten(x) : x \in Responses} :
              LET w1 == Step(s, [r EXCEPT !.vad = set_processing(@, FALSE),
                                          !.at = "recv"])
              IN  IF failed THEN world' = w1
                  ELSE world' = archive_and_save(
                          [w1 EXCEPT !.sess[s].llm.conversation_history =
                              Append(@, [role |-> "assistant",
                                         content |-> response])],
                          s, "assistant", response)
        /\ UNCHANGED session_vars

\* Message "clear"
SClear(s) ==
    LET r == world.sess[s]
    IN  /\ r.at = "recv"
        /\ world' = Step(s, [r EXCEPT !.llm = clear_history(@),
                                       !.vad = reset(@)])
        /\ UNCHANGED session_vars

\* Message "new_session": history cleared, segmenter reset, the registry
\* entry moved to a fresh session id.
SNewSession(s) ==
    LET r == world.sess[s]
    IN  /\ r.at = "recv" /\ world.next_id <= MaxSessionIds
        /\ world' = [Step(s, [r EXCEPT !.llm = clear_history(@),
                                        !.vad = reset(@),
                                        !.sid = world.next_id])
                       EXCEPT !.reg = (@ \ {[sid |-> r.sid, owner |-> s]})
                                      \cup {[sid |-> world.next_id, owner |-> s]},
                              !.next_id = @ + 1]
        /\ UNCHANGED session_vars

\* Message "interrupt"
SInterrupt(s) ==
    LET r == world.sess[s]
    IN  /\ r.at = "recv"
        /\ world' = Step(s, [r EXCEPT !.vad = set_processing(reset(@), FALSE)])
        /\ UNCHANGED session_vars

\* receive_text raises WebSocketDisconnect: the finally block resets the
\* segmenter and keeps the session in active_sessions.
SDisconnect(s) ==
    LET r == world.sess[s]
    IN  /\ r.at = "recv"
        /\ world' = Step(s, [r EXCEPT !.vad = reset(@), !.at = "closed"])
        /\ UNCHANGED session_vars

NextSessions ==
    \E s \in Sessions :
        \/ SConnect(s)
        \/ SAudio(s)
        \/ STranscribe(s)
        \/ SRespond(s)
        \/ SClear(s)
        \/ SNewSession(s)
        \/ SInterrupt(s)
        \/ SDisconnect(s)

SpecSessions == Init /\ [][NextSessions]_vars

\* The event loop resumes every handler whose awaited call (transcription,
\* response stream) has returned; what the clients send, and when, is up to
\* them.
SpecSessionsFair ==
    /\ SpecSessions
    /\ \A s \in Sessions : WF_vars(STranscribe(s)) /\ WF_vars(SRespond(s))

\* ------------------------------------------------------------------------
\* SpecFrames: the frame buffer of one VADService.  The client pushes
\* speech of any length, of two amplitudes, and the segmenter may be locked
\* and unlocked; there is no reset.
\* ------------------------------------------------------------------------
\* A second amplitude above the energy gate.
Louder == 1500

\* Sizes (in samples) of one push of SpecFrames.
FramePushLens == {300, 512, 700}

FramePushes == {<<[lv |-> lv, n |-> n]>> : lv \in {Loud, Louder}, n \in FramePushLens}

\* SpecFrames pushes until this many samples were accepted.
MaxPushedSamples == 2048

FbProcess ==
    /\ NumSamples(world.fb.pushed) < MaxPushedSamples
    /\ \E audio \in FramePushes :
          LET r == process_audio(vad, audio,
                                 [i \in 1..FramesIn(vad, audio) |-> "speech"])
          IN  /\ vad' = r.vad
              /\ ret' = r.ret
              /\ obs' = r.obs
              /\ world' = [world EXCEPT
                    !.fb.pushed = IF vad.processing_lock THEN @
                                  ELSE Concat(@, audio),
                    !.fb.done = IF r.ret.ended THEN Concat(@, r.ret.audio)
                                ELSE @]
    /\ UNCHANGED <<hist, pc, conn, sent, llm, orch, gen, turn>>

FbSetProcessing ==
    /\ \E b \in BOOLEAN :
          /\ vad' = set_processing(vad, b)
          /\ world' = [world EXCEPT
                !.fb.done = IF b THEN Concat(@, ConcatAll(vad.speech_buffer))
                            ELSE @]
    /\ ret' = NoRet
    /\ UNCHANGED <<obs, hist, pc, conn, sent, llm, orch, gen, turn>>

NextFrames == FbProcess \/ FbSetProcessing

SpecFrames == Init /\ [][NextFrames]_vars

\* ------------------------------------------------------------------------
\* SpecRuns: one VADService fed one frame per call, each frame of any
\* amplitude and with any answer of the classifier; the position of every
\* frame in the input is recorded.
\* ------------------------------------------------------------------------
RunProcess ==
    /\ world.run.fed < MaxFramesFed
    /\ \E chunk \in Frames, v \in Verdicts :
          LET r == process_audio(vad, chunk, <<v>>)
          IN  /\ vad' = r.vad
              /\ ret' = r.ret
              /\ obs' = r.obs
              /\ world' = [world EXCEPT
                    !.run.fed = @ + 1,
                    !.run.first = IF vad.speech_buffer = <<>>
                                     /\ r.vad.speech_buffer # <<>>
                                  THEN world.run.fed + 1 ELSE @]
    /\ UNCHANGED <<hist, pc, conn, sent, llm, orch, gen, turn>>

NextRuns == RunProcess

SpecRuns == Init /\ [][NextRuns]_vars

\* ------------------------------------------------------------------------
\* SpecInit: the VADService instances of a process call initialize() in any
\* interleaving.  initialize() tests the cache, enters "async with
\* _VAD_LOCK" (where the coroutine may be suspended), tests the cache again
\* and loads the model; the locked section has no await, so it is one step
\* and the lock is free whenever a step starts.
\* ------------------------------------------------------------------------
\* initialize(), first test of the cache: "if _VAD_MODEL is not None"
initialize_check(w, i) ==
    IF w.VAD_MODEL # 0
    THEN [w EXCEPT !.inst[i] = [at |-> "ready", model |-> w.VAD_MODEL]]
    ELSE [w EXCEPT !.inst[i].at = "lock"]

\* Mutant of initialize_locked: the cache is not tested again under the
\* lock.
initialize_locked_no_recheck(w, i, ok) ==
    IF ok
    THEN [w EXCEPT !.VAD_MODEL = w.loads + 1,
                   !.loads = @ + 1,
                   !.inst[i] = [at |-> "ready", model |-> w.loads + 1]]
    ELSE [w EXCEPT !.inst[i].at = "failed"]

\* initialize(), the section under _VAD_LOCK: second test of the cache,
\* then torch.hub.load, which returns a new model (ok) or raises.
initialize_locked(w, i, ok) ==
    IF w.VAD_MODEL # 0
    THEN [w EXCEPT !.inst[i] = [at |-> "ready", model |-> w.VAD_MODEL]]
    ELSE IF ok
    THEN [w EXCEPT !.VAD_MODEL = w.loads + 1,
                   !.loads = @ + 1,
                   !.inst[i] = [at |-> "ready", model |-> w.loads + 1]]
    ELSE [w EXCEPT !.inst[i].at = "failed"]

InitializeCheck(i) ==
    /\ world.inst[i].at = "new"
    /\ world' = initialize_check(world, i)
    /\ UNCHANGED session_vars

InitializeLocked(i) ==
    /\ world.inst[i].at = "lock"
    /\ \E ok \in BOOLEAN : world' = initialize_locked(world, i, ok)
    /\ UNCHANGED session_vars

NextInit == \E i \in Instances : InitializeCheck(i) \/ InitializeLocked(i)

SpecInit == Init /\ [][NextInit]_vars

\* ------------------------------------------------------------------------
\* Segmenter claims (checked under SpecVad)
\* ------------------------------------------------------------------------
\* C3: while the segmenter is locked, every process_audio call leaves the
\* whole segmenter state (speaking flag, counters, segment buffer, pending
\* samples, lock flag) unchanged and returns (false, none).
C3_LockedIsNoOp ==
    [][(vad.processing_lock /\ VadProcess) => (vad' = vad /\ ret' = NoRet)]_vars

\* A process_audio call was made on a locked segmenter that holds pending
\* samples.
C3_Witness ==
    vad.processing_lock /\ obs.kind = "locked" /\ vad.pending_audio # <<>>

\* C4: from a reset segmenter, as long as every frame fed has RMS below
\* min_audio_level, no segment is emitted, whatever the classifier would
\* answer.
C4_EnergyGate == hist.allQuiet => (~ret.ended /\ hist.emitted = 0)

\* Below-gate frames covering more than max_speech_duration were fed.
C4_Witness ==
    /\ hist.allQuiet
    /\ hist.framesFed * CHUNK_SIZE >= max_speech_samples
    /\ obs.kind = "quiet"

\* The frame on which the last call ended met a close condition of the
\* code: the segmenter was speaking and either a silent frame brought the
\* accumulated silence to min_silence_samples or a speech frame brought the
\* buffered total to max_speech_samples.
CloseReached ==
    /\ obs.was_speaking
    /\ \/ obs.kind \in {"quiet", "silence"} /\ obs.sil >= min_silence_samples
       \/ obs.kind = "speech" /\ obs.total >= max_speech_samples

MaxDurationCondition == obs.kind = "speech" /\ obs.total >= max_speech_samples

C6_MaxBoundary ==
    hist.onlySpeech =>
        /\ hist.framesFed < FramesToMax => hist.emitted = 0
        /\ hist.framesFed >= FramesToMax => hist.emitted >= 1
        /\ (ret.ended /\ hist.emitted = 1) =>
              /\ hist.framesFed = FramesToMax
              /\ ret.audio = <<[lv |-> Loud, n |-> FramesToMax * CHUNK_SIZE]>>

\* Continuous speech was force-closed.
C6_Witness == hist.onlySpeech /\ ret.ended /\ hist.emitted = 1

\* C7 as stated: after any call the segment buffer holds fewer than
\* max_speech_samples samples.
C7_BufferBounded == total_samples(vad.speech_buffer) < max_speech_samples

\* C8: every returned segment has at least min_speech_bytes bytes; when a
\* close yields fewer bytes no segment is reported and the segmenter is idle
\* with an empty segment buffer.
C8_MinSegment ==
    /\ ret.ended => ByteLen(ret.audio) >= min_speech_bytes
    /\ (CloseReached /\ 2 * obs.total < min_speech_bytes) =>
          /\ ret = NoRet
          /\ ~vad.is_speaking
          /\ vad.speech_buffer = <<>>

\* A close yielded too few bytes and was discarded.
C8_Witness == CloseReached /\ 2 * obs.total < min_speech_bytes

\* ------------------------------------------------------------------------
\* Turn and orchestrator claims (checked under Spec)
\* ------------------------------------------------------------------------
IsChunkEvent(e) == e.type \in {"text_chunk", "audio_chunk"}

\* The text_chunk events of the turn, in the order sent.
TextEvents == SelectSeq(sent, LAMBDA e : e.type = "text_chunk")

\* The positions in sent of the audio_chunk events with index i.
AudioAt(i) ==
    {p \in 1..Len(sent) : sent[p].type = "audio_chunk" /\ sent[p].index = i}

\* A turn was started and has finished (the handler is back in the loop or
\* has returned).
TurnFinished == turn.n > 0 /\ ~turn.active

\* C1: within a turn the chunk events (text_chunk, audio_chunk) are sent in
\* increasing index order: no event with a smaller index follows an event
\* with a larger one.
C1_ChunkOrder ==
    \A p, q \in 1..Len(sent) :
        (p < q /\ IsChunkEvent(sent[p]) /\ IsChunkEvent(sent[q]))
            => sent[p].index <= sent[q].index

\* Text and audio of chunk 0 and of chunk 1 were sent.
C1_Witness ==
    /\ AudioAt(0) # {} /\ AudioAt(1) # {}
    /\ Len(TextEvents) >= 2

\* C2: once a turn has finished, on whatever path, the segmenter is
\* unlocked.
C2_UnlockedAfterTurn == TurnFinished => ~vad.processing_lock

\* A turn finished through an exception escaping stream_response_with_tts.
C2_Witness == TurnFinished /\ turn.how = "stream_error"

\* The chunk events marked is_final.
FinalEvents ==
    {p \in 1..Len(sent) : sent[p].type = "audio_chunk" /\ sent[p].is_final}

\* C9 as stated: for a run of the orchestrator that emitted N >= 1 chunks to
\* a connected client, the indices are 0..N-1 in order and exactly one chunk
\* is marked is_final, the one with index N-1.
C9_ContiguousOneFinal ==
    (TurnFinished /\ turn.how = "normal" /\ conn.is_connected
        /\ Len(TextEvents) > 0)
    => /\ \A j \in 1..Len(TextEvents) : TextEvents[j].index = j - 1
       /\ Cardinality(FinalEvents) = 1
       /\ \A p \in FinalEvents : sent[p].index = Len(TextEvents) - 1

\* C10: a failed synthesis call (raised, or no audio) affects the audio of
\* its chunk only: as long as the client is connected, every flushed chunk
\* is sent as a text_chunk with its text and its index in sequence, and a
\* chunk has an audio_chunk exactly if its synthesis call returned audio.
C10_SynthFailureIsolated ==
    (turn.n > 0 /\ conn.is_connected) =>
        /\ Len(TextEvents) = Len(turn.flushed)
        /\ \A j \in 1..Len(TextEvents) :
              /\ TextEvents[j].index = j - 1
              /\ TextEvents[j].text = turn.flushed[j]
        /\ \A k \in 1..Len(turn.synth) :
              (turn.synth[k] = "audio") <=> (AudioAt(k - 1) # {})

\* The synthesis call of chunk 0 raised, and chunk 1 was sent afterwards
\* with its text and its audio.
C10_Witness ==
    /\ conn.is_connected
    /\ Len(turn.synth) >= 2
    /\ turn.synth[1] = "raise"
    /\ turn.synth[2] = "audio"
    /\ Len(TextEvents) >= 2
    /\ TextEvents[1].text = turn.flushed[1]
    /\ TextEvents[2].index = 1
    /\ AudioAt(0) = {} /\ AudioAt(1) # {}

\* ------------------------------------------------------------------------
\* Generation failure, archive and counter claims (checked under SpecTurns)
\* ------------------------------------------------------------------------
\* The positions of the text_chunk events that carry the apology.
ApologyEvents == {j \in 1..Len(TextEvents) : TextEvents[j].text = Apology}

\* C11: once llm.astream has raised in a turn, no further chunk is read from
\* it, the apology is the last chunk flushed, and a connected client has
\* received exactly one apology text_chunk, after the chunks produced before.
C11_SingleApology ==
    /\ (turn.failed /\ turn.active) => pc # "gen"
    /\ turn.failed =>
          /\ Len(turn.flushed) >= 1
          /\ turn.flushed[Len(turn.flushed)] = Apology
          /\ \A j \in 1..(Len(turn.flushed) - 1) : turn.flushed[j] # Apology
    /\ (turn.failed /\ conn.is_connected) =>
          /\ ApologyEvents = {Len(TextEvents)}
          /\ TextEvents[Len(TextEvents)].index = Len(TextEvents) - 1
    /\ ~turn.failed => ApologyEvents = {}

\* llm.astream raised after a chunk had been produced, and the turn
\* finished.
C11_Witness ==
    /\ TurnFinished /\ turn.failed /\ conn.is_connected
    /\ Len(TextEvents) = 2
    /\ TextEvents[1].text # Apology
    /\ TextEvents[2].text = Apology

\* The assistant entries of the archive written in the current exchange.
AssistantEntries ==
    SelectSeq(llm.full_conversation_archive,
              LAMBDA e : e.role = "assistant"
                         /\ e.exchange_number = llm.exchange_count)

\* C12 as stated: when the response stream of a turn has completed, with
\* or without a failure of llm.astream, the archive holds exactly one
\* assistant entry for that turn, with the text generate_stream accumulated
\* from llm.astream (stated for the turns whose stream delivered some text).
C12_OneAssistantEntry ==
    (TurnFinished /\ turn.how = "normal" /\ ~turn.cleared
        /\ strip(gen.full_response) # <<>>) =>
        /\ Len(AssistantEntries) = 1
        /\ AssistantEntries[1].content = gen.full_response

\* C13: exchange_count equals the number of turns that reached the
\* orchestrator since the last clear: each such turn adds exactly 1, whatever
\* the number of chunks it produced and whether llm.astream failed, and a
\* turn that does not reach the orchestrator adds nothing.
C13_ExchangeCount ==
    /\ llm.exchange_count = turn.reached
    /\ (turn.active /\ pc \in {"gen", "synth", "final_synth"}) =>
          llm.exchange_count >= 1

\* The second turn of a session failed in generation after the first one
\* had completed, and the counter is 2.
C13_Witness ==
    /\ TurnFinished /\ turn.n = 2 /\ turn.failed
    /\ llm.exchange_count = 2

\* ------------------------------------------------------------------------
\* Interrupt claims (checked under SpecTurns)
\* ------------------------------------------------------------------------
\* C14 as stated: when the client sent an interrupt while a turn was in
\* progress, no assistant entry is archived for that turn, and the segmenter
\* is unlocked once the turn's handler has returned.
C14_InterruptNoArchive ==
    (TurnFinished /\ turn.interrupted /\ turn.how = "normal" /\ ~turn.cleared)
    => /\ Len(AssistantEntries) = 0
       /\ ~vad.processing_lock

\* The events of the turn sent after the client's interrupt.
AfterInterrupt == SubSeq(sent, turn.cut + 1, Len(sent))

\* A text_chunk, an audio_chunk or the assistant transcript.
IsResponseEvent(e) ==
    IF e.type = "transcript" THEN e.role = "assistant" ELSE IsChunkEvent(e)

\* C15 as stated: after the client sent an interrupt during a turn, no
\* text_chunk, audio_chunk or assistant transcript event of that turn is
\* sent.
C15_InterruptImmediate ==
    turn.interrupted =>
        \A p \in 1..Len(AfterInterrupt) : ~IsResponseEvent(AfterInterrupt[p])

\* ------------------------------------------------------------------------
\* Chunking claims (checked under SpecStream)
\* ------------------------------------------------------------------------
\* The turn has finished with the client connected, llm.astream delivered
\* exactly the chunks of stream and ended, and every synthesis call returned
\* audio.
Streamed(stream) ==
    /\ TurnFinished /\ turn.how = "normal" /\ conn.is_connected
    /\ ~turn.failed
    /\ gen.nread = Len(stream)
    /\ gen.full_response = Flatten(stream)
    /\ \A k \in 1..Len(turn.synth) : turn.synth[k] = "audio"

\* C16 as stated: for the stream "Hello", ",", " how", " are", " you", "?"
\* exactly one chunk is emitted, with text "Hello, how are you?" and index 0,
\* and it is marked final.
C16_HelloOneFinalChunk ==
    Streamed(HelloStream) =>
        /\ Len(TextEvents) = 1
        /\ TextEvents[1].text = Flatten(HelloStream)
        /\ TextEvents[1].index = 0
        /\ \E p \in AudioAt(0) : sent[p].is_final

\* C17 as stated: for seven words without punctuation exactly two chunks are
\* emitted, the first with the first six words, the second with the seventh.
C17_SevenWordsTwoChunks ==
    Streamed(SevenWords) =>
        /\ Len(turn.flushed) = 2
        /\ turn.flushed[1] = strip(Flatten(SubSeq(SevenWords, 1, 6)))
        /\ turn.flushed[2] = strip(SevenWords[7])
        /\ \E p \in AudioAt(1) : sent[p].is_final

\* The text received from llm.astream that has not been flushed as a chunk:
\* what stream_response_with_tts holds in text_buffer and what
\* generate_stream still holds in sentence_buffer.
Pending == orch.text_buffer \o gen.sentence_buffer

\* C18 as stated: when the code waits for the next token, the pending text
\* does not meet the flush rule (a sentence ending, or 3 words and a clause
\* ending, or 6 words): a buffer that meets it was flushed when the token
\* was appended.
C18_FlushRule ==
    (turn.active /\ pc = "gen") => ~should_synthesize(Pending)

\* text without its whitespace
NonWs(t) == SelectSeq(t, LAMBDA c : c \notin Whitespace)

\* C19 as stated: when llm.astream has ended, the chunk texts emitted cover,
\* up to whitespace, all the text it delivered: the remainder was flushed as
\* a last chunk and nothing was dropped.
C19_NothingDropped ==
    (TurnFinished /\ turn.how = "normal" /\ ~turn.failed) =>
        NonWs(Flatten(turn.flushed)) = NonWs(gen.full_response)

\* C20 as stated: a turn with a non-empty transcript does not end without
\* having emitted a chunk, response text or apology.
C20_AlwaysAChunk ==
    (TurnFinished /\ turn.how = "normal") => Len(turn.flushed) >= 1

\* ------------------------------------------------------------------------
\* Session claims (checked under SpecTurns)
\* ------------------------------------------------------------------------
\* The handler coroutine is inside process_audio_safe, past the lock.
InTurn == pc \in {"transcribe", "gen", "synth", "final_synth"}

\* C21: whenever a turn of the session is active (transcribing, generating
\* or synthesizing) the session's segmenter is locked, and no second turn of
\* the session starts before the active one has finished, whatever messages
\* (audio, clear, new_session, interrupt) the client sends and when.
C21_OneTurnLocked ==
    /\ []((turn.active <=> InTurn) /\ (turn.active => vad.processing_lock))
    /\ [][turn.active => turn'.n = turn.n]_vars

\* The second turn of a session is synthesizing while an interrupt of the
\* client waits to be read.
C21_Witness ==
    /\ turn.active /\ turn.n = 2 /\ pc = "synth"
    /\ conn.queued /\ vad.processing_lock

\* ------------------------------------------------------------------------
\* Reset and frame buffer claims (checked under SpecVad)
\* ------------------------------------------------------------------------
\* C22: reset applied in any state (idle, speaking, locked, with pending
\* partial-frame samples) yields the initial state: idle, unlocked, all
\* counters zero, segment buffer and frame buffer empty; a second reset
\* changes nothing.
C22_ResetToInitial ==
    /\ reset(vad) = VadInit
    /\ reset(reset(vad)) = reset(vad)

\* reset is applied to a speaking segmenter that holds a partial frame, a
\* segment buffer and accumulated silence.
C22_Witness ==
    /\ vad.is_speaking /\ vad.silence_samples > 0
    /\ vad.pending_audio # <<>> /\ vad.speech_buffer # <<>>
    /\ reset(vad) = VadInit

\* ------------------------------------------------------------------------
\* Empty transcript (checked under SpecTurns)
\* ------------------------------------------------------------------------
\* Transcripts for which transcript.strip() is empty.
BlankTranscripts == { <<>>, <<" ">>, <<" ", " ">> }

\* C23: when the transcription call returns an empty or whitespace-only
\* transcript the turn is skipped: generate_stream is not called, no chunk
\* is flushed or sent, and the conversation history, the archive and
\* exchange_count are what they were before the turn.
C23_EmptyTranscriptSkipped ==
    /\ pc = "transcribe" =>
          \A t \in BlankTranscripts, built \in BOOLEAN :
             LET st == AfterTranscribe(Cur, [raised |-> FALSE, text |-> t], built)
             IN  /\ st.llm = llm /\ st.gen = gen /\ st.orch = orch
                 /\ st.turn.how = "empty" /\ st.turn.flushed = <<>>
                 /\ st.pc \in {"recv", "closed"}
                 /\ \A p \in 1..Len(st.sent) : ~IsResponseEvent(st.sent[p])
    /\ (TurnFinished /\ turn.how = "empty") =>
          /\ turn.flushed = <<>> /\ turn.synth = <<>>
          /\ \A p \in 1..Len(sent) : ~IsResponseEvent(sent[p])
          /\ llm.exchange_count = turn.reached

\* The second turn of a session was skipped for an empty transcript; the
\* archive holds the entries of the first turn.
C23_Witness ==
    /\ TurnFinished /\ turn.how = "empty" /\ turn.n = 2
    /\ conn.is_connected
    /\ llm.exchange_count = 1
    /\ Len(llm.full_conversation_archive) = 2

\* ------------------------------------------------------------------------
\* Archive (checked under SpecTurns)
\* ------------------------------------------------------------------------
\* a is a prefix of b
IsPrefix(a, b) == Len(a) <= Len(b) /\ SubSeq(b, 1, Len(a)) = a

\* C24: the conversation archive is append-only: every step leaves it as it
\* was, extends it by new entries at the end, or, in the handler of a clear
\* or new_session message, empties it.  No step changes or removes a single
\* entry.
C24_ArchiveAppendOnly ==
    [][\/ IsPrefix(llm.full_conversation_archive, llm'.full_conversation_archive)
       \/ /\ llm'.full_conversation_archive = <<>>
          /\ RecvClear \/ RecvNewSession]_vars

\* The second turn of a session has appended its user and assistant entries
\* after those of the first.
C24_Witness ==
    /\ turn.n = 2
    /\ Len(llm.full_conversation_archive) = 4
    /\ llm.full_conversation_archive[1].exchange_number = 1
    /\ llm.full_conversation_archive[4].exchange_number = 2
    /\ llm.full_conversation_archive[4].role = "assistant"

\* ------------------------------------------------------------------------
\* Session isolation (checked under SpecSessions)
\* ------------------------------------------------------------------------
\* session s is connected
Connected(s) == world.sess[s].at \notin {"none", "closed"}

\* C25 as stated: a step of one session leaves the segmenter, the history,
\* the archive and the counter of every other session unchanged, and while
\* two sessions are connected the archive record written out for a session
\* (output.json) holds that session's archive, not entries of the other.
C25_SessionsIsolated ==
    /\ [][\A s \in Sessions :
            world'.actor # s => world'.sess[s] = world.sess[s]]_vars
    /\ [](\A s \in Sessions :
            (/\ \A t \in Sessions : Connected(t)
             /\ world.sess[s].llm.full_conversation_archive # <<>>)
            => world.output_json = world.sess[s].llm.full_conversation_archive)

\* ------------------------------------------------------------------------
\* Frame buffer (checked under SpecFrames)
\* ------------------------------------------------------------------------
\* C26: across unlocked process_audio calls with pushes of any length and no
\* reset, the frames taken are the consecutive CHUNK_SIZE-sample slices of
\* the concatenation of all pushed samples, in push order: what has left
\* the segment buffer, the frames in it and the pending samples make up
\* exactly what was pushed, every frame has CHUNK_SIZE samples, and a
\* remainder shorter than one frame stays pending for the next call.
C26_FrameBuffer ==
    /\ Concat(Concat(world.fb.done, ConcatAll(vad.speech_buffer)),
              vad.pending_audio) = world.fb.pushed
    /\ \A k \in 1..Len(vad.speech_buffer) :
          NumSamples(vad.speech_buffer[k]) = CHUNK_SIZE
    /\ ~ret.ended => NumSamples(vad.pending_audio) < CHUNK_SIZE

\* Pushes of both amplitudes were sliced into three frames or more, one of
\* them of mixed amplitude, and a remainder is pending.
C26_Witness ==
    /\ ~vad.processing_lock
    /\ Len(vad.speech_buffer) >= 3
    /\ \E k \in 1..Len(vad.speech_buffer) : Len(vad.speech_buffer[k]) = 2
    /\ vad.pending_audio # <<>>
    /\ world.fb.done # <<>>

\* ------------------------------------------------------------------------
\* Concurrency of synthesis and disconnects (checked under SpecStream)
\* ------------------------------------------------------------------------
\* C27 as stated: the synthesis call of a flushed chunk runs concurrently
\* with the rest of the stream: when a chunk is flushed while the generator
\* has more to deliver, the handler goes on to read the next token with the
\* synthesis call in flight, instead of waiting for it.
C27_SynthesisConcurrent ==
    [][(/\ pc = "gen" /\ turn.active
        /\ Len(turn'.flushed) = Len(turn.flushed) + 1
        /\ gen'.at = "loop")
       => pc' = "gen"]_vars

\* C28 as stated: once a send has failed during a turn and the connection
\* is marked closed, no further token is read from the generator and no
\* further synthesis call is dispatched for that turn.
C28_StopsAfterDisconnect ==
    [][(turn.active /\ ~conn.is_connected)
       => /\ gen'.nread = gen.nread
          /\ Len(turn'.flushed) = Len(turn.flushed)]_vars

\* ------------------------------------------------------------------------
\* Classifier model cache (checked under SpecInit)
\* ------------------------------------------------------------------------
\* C29: for any interleaving of initialize() calls the model is loaded
\* successfully at most once per process, and every initialized VADService
\* references that one cached model.
C29_ModelLoadedOnce ==
    /\ world.loads <= 1
    /\ \A i \in Instances :
          world.inst[i].at = "ready" =>
             /\ world.VAD_MODEL # 0
             /\ world.inst[i].model = world.VAD_MODEL

\* Two calls had passed the first test when a load failed; the next call
\* loaded the model and the others took it from the cache.
C29_Witness ==
    /\ world.loads = 1
    /\ \E i \in Instances : world.inst[i].at = "failed"
    /\ Cardinality({i \in Instances : world.inst[i].at = "ready"}) >= 3

\* ------------------------------------------------------------------------
\* Session registry (checked under SpecSessionsFair)
\* ------------------------------------------------------------------------
\* the entry of session s in active_sessions
Registered(s) == [sid |-> world.sess[s].sid, owner |-> s] \in world.reg

\* C30 as stated: after a client has disconnected, its entry is eventually
\* removed from the session registry.
C30_SessionDestroyed ==
    \A s \in Sessions : (world.sess[s].at = "closed") ~> ~Registered(s)

\* ------------------------------------------------------------------------
\* Segmenter transitions, frame by frame (checked under SpecVad)
\* ------------------------------------------------------------------------
\* C31: the segmenter changes from idle to speaking only on a frame that is
\* classified as speech and at which the consecutive-speech count is at
\* least min_consecutive_speech and the accumulated speech at least
\* min_speech_samples; every silent or quiet frame sets the consecutive
\* count back to 0, so a run of fewer than min_consecutive_speech speech
\* frames between silence never opens a segment.
C31_Debounce ==
    \A chunk \in Frames, verdict \in Verdicts :
       LET r == ProcessChunk(vad, chunk, verdict)
       IN  /\ (~vad.is_speaking /\ r.vad.is_speaking) =>
                 /\ verdict = "speech" /\ ~rms_below_min_audio_level(chunk)
                 /\ r.vad.consecutive_speech >= min_consecutive_speech
                 /\ r.vad.consecutive_speech = vad.consecutive_speech + 1
                 /\ r.vad.speech_samples >= min_speech_samples
           /\ (rms_below_min_audio_level(chunk) \/ verdict = "silence") =>
                 r.vad.consecutive_speech = 0

\* A segment was opened by the third speech frame in a row, after an earlier
\* speech frame and a silence had left the count short.
C31_Witness ==
    /\ vad.is_speaking /\ obs.kind = "speech"
    /\ vad.consecutive_speech = min_consecutive_speech
    /\ vad.speech_samples >= min_speech_samples
    /\ vad.speech_samples - CHUNK_SIZE < min_speech_samples
    /\ Len(vad.speech_buffer) > min_consecutive_speech

\* ------------------------------------------------------------------------
\* Exit hysteresis (checked under SpecVadShort)
\* ------------------------------------------------------------------------
\* C32 as stated: a segment is closed through silence only on a frame at
\* which at least min_consecutive_silence consecutive silent or quiet frames
\* have been processed and the accumulated silence is at least
\* min_silence_samples, whatever min_silence_duration the segmenter was
\* built with.
C32_SilenceExit ==
    (obs.closed # "no" /\ obs.kind \in {"quiet", "silence"}) =>
        /\ obs.csil >= min_consecutive_silence
        /\ obs.sil >= vad.min_silence_samples

C34_TurnAudioIgnored ==
    /\ turn.n > 0 => ~turn.echo
    /\ (pc = "recv" /\ conn.audio # None) => vad.processing_lock

\* ------------------------------------------------------------------------
\* Tentative audio while idle (checked under SpecVad)
\* ------------------------------------------------------------------------
\* C35 as stated: whenever the segmenter is idle and more than
\* IdleClearAfter consecutive non-speech frames (classifier silence or quiet
\* below the gate) have been processed since the last speech frame, the
\* segment buffer is empty and the accumulated speech count is zero.
C35_IdleCleared ==
    (~vad.is_speaking /\ vad.consecutive_silence > IdleClearAfter) =>
        /\ vad.speech_buffer = <<>>
        /\ vad.speech_samples = 0

\* ------------------------------------------------------------------------
\* Contiguity of a segment (checked under SpecRuns)
\* ------------------------------------------------------------------------
\* C36 as stated: every emitted segment is one contiguous run of the
\* processed frames; it holds exactly the frames from the oldest frame of
\* the segment buffer to the frame on which it is emitted, none left out.
C36_SegmentContiguous ==
    ret.ended =>
        NumSamples(ret.audio) =
            (world.run.fed - world.run.first + 1) * CHUNK_SIZE

\* ------------------------------------------------------------------------
\* Segmenter state invariants (checked under SpecVad)
\* ------------------------------------------------------------------------
\* C37: in every reachable segmenter state, speaking implies a non-empty
\* segment buffer and at least min_speech_samples of accumulated speech;
\* idle implies no accumulated silence; and the consecutive-speech and
\* consecutive-silence counts are never both positive.
C37_SegmenterInvariants ==
    /\ vad.is_speaking =>
          /\ vad.speech_buffer # <<>>
          /\ vad.speech_samples >= min_speech_samples
    /\ ~vad.is_speaking => vad.silence_samples = 0
    /\ ~(vad.consecutive_speech > 0 /\ vad.consecutive_silence > 0)

\* A segment that accumulated silence was just closed by it: the segmenter
\* is idle again with the silent frames still counted.
C37_Witness ==
    /\ ~vad.is_speaking
    /\ obs.closed # "no" /\ obs.kind \in {"quiet", "silence"}
    /\ obs.sil >= vad.min_silence_samples
    /\ vad.consecutive_silence > 0 /\ vad.consecutive_speech = 0
    /\ vad.silence_samples = 0

\* ------------------------------------------------------------------------
\* Classifier failures (checked under SpecVad)
\* ------------------------------------------------------------------------
\* C38: if the classifier call fails for a frame, the frame is skipped and
\* the segmenter state is exactly what it was before the frame; the call does
\* not end there but goes on with the next frame, so that a call with a
\* failing frame followed by another frame leaves the state and the result
\* of a call with the second frame alone.
C38_ClassifierFailureSkips ==
    LET one == <<[lv |-> Loud, n |-> CHUNK_SIZE]>>
        two == <<[lv |-> Loud, n |-> 2 * CHUNK_SIZE]>>
    IN  /\ LET r == ProcessChunk(vad, one, "error")
           IN  r.vad = vad /\ ~r.returns /\ r.ret = NoRet
        /\ (vad.pending_audio = <<>> /\ ~vad.processing_lock) =>
              \A v \in Verdicts :
                 LET failed == process_audio(vad, two, <<"error", v>>)
                     alone  == process_audio(vad, one, <<v>>)
                 IN  failed.vad = alone.vad /\ failed.ret = alone.ret

\* A call ended on a frame whose classifier call failed, in the middle of an
\* open segment.
C38_Witness ==
    /\ obs.kind = "error" /\ obs.frames >= 2
    /\ vad.is_speaking /\ vad.silence_samples > 0
    /\ vad.pending_audio = <<>>

\* ------------------------------------------------------------------------
\* End of a turn (checked under SpecTurns)
\* ------------------------------------------------------------------------
\* C39 as stated: every turn that locked the segmenter and has finished with
\* the client still connected ended by sending status "ready", whichever
\* way it went (normal, empty transcript, transcription exception,
\* response-streaming exception).
C39_TurnEndsReady ==
    (TurnFinished /\ conn.is_connected) =>
        /\ sent # <<>>
        /\ sent[Len(sent)].type = "status"
        /\ sent[Len(sent)].status = "ready"

\* ------------------------------------------------------------------------
\* Order of the events of a turn (checked under SpecStream)
\* ------------------------------------------------------------------------
\* The positions in sent of status "speaking".
SpeakingAt ==
    {p \in 1..Len(sent) : sent[p].type = "status" /\ sent[p].status = "speaking"}

\* C40: within a turn, every audio_chunk event follows the text_chunk event
\* of its index; status "speaking" is sent at most once, and in a turn that
\* sends chunk events exactly once and before text_chunk(0), hence before
\* every chunk event; and the assistant transcript event follows every chunk
\* event of the turn.
C40_EventOrder ==
    /\ \A p \in 1..Len(sent) :
          sent[p].type = "audio_chunk" =>
             \E q \in 1..(p - 1) :
                sent[q].type = "text_chunk" /\ sent[q].index = sent[p].index
    /\ Cardinality(SpeakingAt) <= 1
    /\ \A p \in 1..Len(sent) :
          IsChunkEvent(sent[p]) =>
             /\ \E q \in SpeakingAt : q < p
             /\ \E q \in 1..p : sent[q].type = "text_chunk" /\ sent[q].index = 0
             /\ \A q \in 1..p :
                   (sent[q].type = "text_chunk" /\ sent[q].index = 0) =>
                       \E k \in SpeakingAt : k < q
    /\ \A p, q \in 1..Len(sent) :
          (IsChunkEvent(sent[q]) /\ sent[p].type = "transcript")
              => (sent[p].role = "assistant" => q < p)

\* A turn has finished that sent text and audio of chunk 0 and of chunk 1
\* and then the assistant transcript.
C40_Witness ==
    /\ TurnFinished /\ turn.how = "normal"
    /\ AudioAt(0) # {} /\ AudioAt(1) # {}
    /\ Len(TextEvents) >= 2
    /\ Cardinality(SpeakingAt) = 1
    /\ \E p \in 1..Len(sent) :
          sent[p].type = "transcript" /\ sent[p].role = "assistant"

====
